---- MODULE Spec2Model ----
(***************************************************************************)
(* Model of window.analyzeGpxRouteWithProgress (src/mapGenerator.js).      *)
(*                                                                         *)
(* Geometry.  All track points and all features lie on one meridian, so    *)
(* that haversine(lat1, lon, lat2, lon) = R * |lat2 - lat1| is the plain   *)
(* difference of the latitudes.  A latitude is an integer number of        *)
(* 1/Scale km.  A coordinate of 0 stands for a coordinate that is falsy in *)
(* the code (absent, or exactly 0): `el.lat && el.lon` rejects both.       *)
(*                                                                         *)
(* Strings (names, population texts) are sequences of one-character        *)
(* strings, so that toLowerCase, includes and replace(/\D/g, '') are       *)
(* computed and not assumed.  The empty sequence stands for a string that  *)
(* is falsy in the code (absent, or '').                                   *)
(***************************************************************************)
EXTENDS Integers, Sequences, FiniteSets, TLC

VARIABLES
    pc,             \* position of the invocation in the async function
    points,         \* line 301: parsed track points, [lat, ele]
    kmMarkers,      \* line 307
    markerIndices,  \* line 308 (0-based indices into points, as in the code)
    hasProgressCb,  \* whether the caller passed a progressCallback
    hasDoneCb,      \* whether the caller passed a doneCallback
    lookups,        \* number of fetch() calls issued
    overpassResult, \* line 329
    passes, rivers, towns,   \* line 334
    m,              \* loop index of the classification loop, line 352
    summary,        \* line 351: km -> entry
    filtered,       \* line 405: km -> entry
    blockHas,       \* line 406: the blocks b with blockHas[b] = true
    seen,           \* line 407: the set of type|name keys
    filteredKms,    \* line 463: the accepted keys, ascending, before removal
    events,         \* the callback invocations made so far, in order
    peer,           \* the locals of the other invocation, which is not running
    self            \* which invocation is running: 1 started first, 2 second

vars == <<pc, points, kmMarkers, markerIndices, hasProgressCb, hasDoneCb,
          lookups, overpassResult, passes, rivers, towns, m, summary,
          filtered, blockHas, seen, filteredKms, events, peer, self>>

(***************************************************************************)
(* Bounds of the model.                                                    *)
(***************************************************************************)
MaxPts == 3
MaxElems == 2

(***************************************************************************)
(* Program constants.                                                      *)
(***************************************************************************)
Scale == 2
SAMPLE_EVERY_KM == 1
ProximityKm == 1
PeakWindow == 2
BlockKm == 10
MinGapKm == 5

(***************************************************************************)
(* Small arithmetic helpers.                                               *)
(***************************************************************************)
Abs(x) == IF x < 0 THEN -x ELSE x

\* haversine on one meridian, in 1/Scale km
haversine(lat1, lat2) == Abs(lat2 - lat1)

\* Math.round of dist/Scale km: the nearest integer, halves rounded up
MathRound(dist) == (2 * dist + Scale) \div (2 * Scale)

\* Math.floor(km / 10)
BlockOf(km) == km \div BlockKm

(***************************************************************************)
(* Strings.                                                                *)
(***************************************************************************)
UpperChars == <<"A","B","C","D","E","F","G","H","I","J","K","L","M",
                "N","O","P","Q","R","S","T","U","V","W","X","Y","Z">>
LowerChars == <<"a","b","c","d","e","f","g","h","i","j","k","l","m",
                "n","o","p","q","r","s","t","u","v","w","x","y","z">>
DigitChars == <<"0","1","2","3","4","5","6","7","8","9">>

ToLowerChar(c) ==
    IF \E i \in 1..26 : UpperChars[i] = c
    THEN LowerChars[CHOOSE i \in 1..26 : UpperChars[i] = c]
    ELSE c

toLowerCase(s) == [i \in 1..Len(s) |-> ToLowerChar(s[i])]

includes(s, pat) ==
    \E i \in 0..(Len(s) - Len(pat)) : SubSeq(s, i + 1, i + Len(pat)) = pat

IsDigit(c) == \E i \in 1..10 : DigitChars[i] = c
DigitValue(c) == (CHOOSE i \in 1..10 : DigitChars[i] = c) - 1

\* s.replace(/\D/g, '')
StripNonDigits(s) == SelectSeq(s, IsDigit)

RECURSIVE DecimalValue(_)
DecimalValue(s) ==
    IF s = <<>> THEN 0
    ELSE 10 * DecimalValue(SubSeq(s, 1, Len(s) - 1)) + DigitValue(s[Len(s)])

\* parseInt of a string of digits only: NaN for the empty string
NaN == -1
parseInt(s) == IF s = <<>> THEN NaN ELSE DecimalValue(s)

\* a > b on JS numbers: false as soon as one side is NaN
NumGreater(a, b) == a # NaN /\ b # NaN /\ a > b

Truthy(s) == s # <<>>

UnnamedPat == <<"u","n","n","a","m","e","d">>

\* the test without toLowerCase
IsUnnamedCaseSensitive(name) == includes(name, UnnamedPat)

\* lines 413, 428, 443: entry.name.toLowerCase().includes('unnamed')
IsUnnamed(name) == includes(toLowerCase(name), UnnamedPat)

UnnamedPass == <<"U","n","n","a","m","e","d"," ","P","a","s","s">>
UnnamedRiver == <<"U","n","n","a","m","e","d"," ","R","i","v","e","r">>
UnnamedTown == <<"U","n","n","a","m","e","d"," ","T","o","w","n">>
UnnamedTownPeak == <<"U","n","n","a","m","e","d"," ","T","o","w","n",
                     " ","(","P","e","a","k",")">>

(***************************************************************************)
(* Inputs: the tracks the caller can pass.                                 *)
(***************************************************************************)
\* latitude of the first track point, and the distances between two
\* consecutive track points (0.5 km, 1.5 km, 8.5 km)
StartLat == 2
Steps == {1, 3, 17}

RECURSIVE SeqsUpTo(_, _)
SeqsUpTo(S, n) ==
    IF n = 0 THEN {<<>>}
    ELSE LET shorter == SeqsUpTo(S, n - 1)
         IN  shorter \cup {Append(q, x) : q \in {r \in shorter : Len(r) = n - 1}, x \in S}

RECURSIVE SumSeq(_)
SumSeq(q) == IF q = <<>> THEN 0 ELSE SumSeq(SubSeq(q, 1, Len(q) - 1)) + q[Len(q)]

\* the elevation texts of a track: no <ele> child at all, rising, falling
EleProfiles == {"none", "rising", "falling"}

\* a <trkpt> element: its lat attribute and its <ele> child, if any
Trkpt(lat, profile, i) ==
    [lat |-> lat,
     hasEle |-> profile # "none",
     ele |-> CASE profile = "rising" -> i
               [] profile = "falling" -> 0 - i
               [] OTHER -> 0]

TrackOf(stepSeq, profile) ==
    [i \in 1..(Len(stepSeq) + 1) |->
        Trkpt(StartLat + SumSeq(SubSeq(stepSeq, 1, i - 1)), profile, i)]

\* every track of 1..MaxPts points, and the empty track
Tracks ==
    {<<>>} \cup
    {TrackOf(q, p) : q \in SeqsUpTo(Steps, MaxPts - 1), p \in EleProfiles}

(***************************************************************************)
(* Lines 301-305: parsing of the track points.                             *)
(***************************************************************************)
ParsePoints(trkpts) ==
    [i \in 1..Len(trkpts) |->
        [lat |-> trkpts[i].lat,
         ele |-> IF trkpts[i].hasEle THEN trkpts[i].ele ELSE 0]]

(***************************************************************************)
(* Lines 306-316: distance sampling.  The result is the pair of            *)
(* kmMarkers and markerIndices after the loop has looked at points[1..i]   *)
(* (0-based), with cumDist the distance accumulated up to points[i].       *)
(***************************************************************************)
CumDist(pts, i) ==
    SumSeq([j \in 1..i |-> haversine(pts[j].lat, pts[j + 1].lat)])

\* the comparison without `+ SAMPLE_EVERY_KM`
SampleStepNoInterval(acc, cumDist, i) ==
    IF cumDist >= acc.km[Len(acc.km)] * Scale
    THEN [km |-> Append(acc.km, MathRound(cumDist)), idx |-> Append(acc.idx, i)]
    ELSE acc

\* lines 312-315
SampleStep(acc, cumDist, i) ==
    IF cumDist >= (acc.km[Len(acc.km)] + SAMPLE_EVERY_KM) * Scale
    THEN [km |-> Append(acc.km, MathRound(cumDist)), idx |-> Append(acc.idx, i)]
    ELSE acc

RECURSIVE SampleLoop(_, _)
SampleLoop(pts, i) ==
    IF i = 0 THEN [km |-> <<0>>, idx |-> <<0>>]
    ELSE SampleStep(SampleLoop(pts, i - 1), CumDist(pts, i), i)

SampleMarkers(pts) == SampleLoop(pts, IF Len(pts) = 0 THEN 0 ELSE Len(pts) - 1)

(***************************************************************************)
(* Inputs: the elements the Overpass lookup can return.  An element is     *)
(* JSON null, or an object with or without tags; lat is the node's own     *)
(* position and center the centre of a way (0: the element has none).      *)
(***************************************************************************)
NameAa == <<"A", "a">>
NameBb == <<"B", "b">>
NameOdd == <<"X", " ", "u", "N", "n", "A", "m", "E", "D">>
NoText == <<>>

Elem(mp, ww, pl, name, pop, lat, center) ==
    [null |-> FALSE, hasTags |-> TRUE, mountain_pass |-> mp, waterway |-> ww,
     place |-> pl, name |-> name, population |-> pop, lat |-> lat,
     center |-> center]

NullElem == [Elem("", "", "", NoText, NoText, 0, 0) EXCEPT !.null = TRUE, !.hasTags = FALSE]
TaglessElem == [Elem("", "", "", NoText, NoText, 2, 0) EXCEPT !.hasTags = FALSE]

PassA == Elem("yes", "", "", NameAa, NoText, 3, 0)
PassU == Elem("yes", "river", "", NoText, NoText, 1, 0)
RiverB == Elem("", "river", "", NameBb, NoText, 0, 2)
RiverU == Elem("", "river", "", NoText, NoText, 19, 0)
TownA == Elem("", "", "town", NameAa, <<"1", ",", "2">>, 19, 0)
TownB == Elem("", "", "village", NameBb, <<"n", "a">>, 3, 0)
TownNoPos == Elem("", "", "city", NameAa, <<"9">>, 0, 20)
Hamlet == Elem("", "", "hamlet", NameBb, NoText, 2, 0)

ElemPool == {NullElem, TaglessElem, PassA, PassU, RiverB, RiverU, TownA,
             TownB, TownNoPos, Hamlet}

\* the lists of at most MaxElems elements, each element listed once
ElemLists ==
    {q \in SeqsUpTo(ElemPool, MaxElems) :
        \A i, j \in 1..Len(q) : i # j => q[i] # q[j]}

\* what `await resp.json()` can resolve with: null; an object whose elements
\* field is absent or falsy; one whose elements field is truthy but not
\* iterable (a number, an object); one whose elements field is a list
JsonValues ==
    {[kind |-> k, elements |-> <<>>] : k \in {"null", "noElements", "notIterable"}}
    \cup {[kind |-> "list", elements |-> q] : q \in ElemLists}

NullResult == [kind |-> "null", elements |-> <<>>]

(***************************************************************************)
(* Lines 334-341: the tag filter.                                          *)
(***************************************************************************)
IsPassElem(el) == el.hasTags /\ el.mountain_pass = "yes"
IsRiverElem(el) == ~IsPassElem(el) /\ el.hasTags /\ el.waterway = "river"
IsTownElem(el) ==
    /\ ~IsPassElem(el)
    /\ ~IsRiverElem(el)
    /\ el.hasTags
    /\ el.place \in {"town", "city", "village"}

\* line 335: the loop over the elements is entered
HasElements(result) == result.kind \in {"notIterable", "list"}

\* `for (let el of overpassResult.elements)` throws a TypeError when the
\* value is not iterable, and `el.tags` throws one when el is null
TagFilterThrows(result) ==
    \/ result.kind = "notIterable"
    \/ result.kind = "list" /\ \E i \in 1..Len(result.elements) : result.elements[i].null

(***************************************************************************)
(* Lines 356-362, 369-377, 384-390: the nearest feature within 1 km.  The  *)
(* result is the index in els of the nearest feature, 0 for null.          *)
(***************************************************************************)
NodeLats(els) == [i \in 1..Len(els) |-> els[i].lat]
RiverLats(els) ==
    [i \in 1..Len(els) |-> IF els[i].lat # 0 THEN els[i].lat ELSE els[i].center]

NearestStep(acc, elLat, i, lat) ==
    IF elLat # 0 /\ haversine(lat, elLat) < acc.dist
    THEN [idx |-> i, dist |-> haversine(lat, elLat)]
    ELSE acc

RECURSIVE NearestLoop(_, _, _)
NearestLoop(lats, lat, i) ==
    IF i = 0 THEN [idx |-> 0, dist |-> ProximityKm * Scale]
    ELSE NearestStep(NearestLoop(lats, lat, i - 1), lats[i], i, lat)

Nearest(lats, lat) == NearestLoop(lats, lat, Len(lats)).idx

(***************************************************************************)
(* Lines 342-350: isPeak (idx is 0-based, as in the code).                 *)
(***************************************************************************)
\* a peak test in which an equal elevation in the window prevents a peak
isPeakNoTies(pts, idx) ==
    \A offset \in 1..PeakWindow :
        /\ ~(idx - offset >= 0 /\ pts[idx - offset + 1].ele >= pts[idx + 1].ele)
        /\ ~(idx + offset < Len(pts) /\ pts[idx + offset + 1].ele >= pts[idx + 1].ele)

isPeak(pts, idx) ==
    \A offset \in 1..PeakWindow :
        /\ ~(idx - offset >= 0 /\ pts[idx - offset + 1].ele > pts[idx + 1].ele)
        /\ ~(idx + offset < Len(pts) /\ pts[idx + offset + 1].ele > pts[idx + 1].ele)

(***************************************************************************)
(* Lines 353-401: the classification of one marker.  The result is the     *)
(* entry stored in summary, or NoEntry.                                    *)
(***************************************************************************)
Entry(type, name) == [has |-> TRUE, type |-> type, name |-> name]
NoEntry == [has |-> FALSE, type |-> "", name |-> NoText]

OrElse(name, placeholder) == IF Truthy(name) THEN name ELSE placeholder

\* a classifier that looks for a river before it looks for a pass
ClassifyRiverFirst(pts, idx, ps, rs, ts) ==
    LET lat == pts[idx + 1].lat
        nearestPass == Nearest(NodeLats(ps), lat)
        nearestRiver == Nearest(RiverLats(rs), lat)
        nearestTown == Nearest(NodeLats(ts), lat)
    IN  IF nearestRiver # 0
        THEN Entry("river", OrElse(rs[nearestRiver].name, UnnamedRiver))
        ELSE IF nearestPass # 0
        THEN Entry("pass", OrElse(ps[nearestPass].name, UnnamedPass))
        ELSE IF nearestTown # 0 /\ isPeak(pts, idx)
        THEN Entry("pass", OrElse(ts[nearestTown].name, UnnamedTownPeak))
        ELSE IF nearestTown # 0
        THEN Entry("town", OrElse(ts[nearestTown].name, UnnamedTown))
        ELSE NoEntry

\* a classifier that applies the town-at-peak override before it looks for
\* a river
ClassifyPeakBeforeRiver(pts, idx, ps, rs, ts) ==
    LET lat == pts[idx + 1].lat
        nearestPass == Nearest(NodeLats(ps), lat)
        nearestRiver == Nearest(RiverLats(rs), lat)
        nearestTown == Nearest(NodeLats(ts), lat)
    IN  IF nearestPass # 0
        THEN Entry("pass", OrElse(ps[nearestPass].name, UnnamedPass))
        ELSE IF nearestTown # 0 /\ isPeak(pts, idx)
        THEN Entry("pass", OrElse(ts[nearestTown].name, UnnamedTownPeak))
        ELSE IF nearestRiver # 0
        THEN Entry("river", OrElse(rs[nearestRiver].name, UnnamedRiver))
        ELSE IF nearestTown # 0
        THEN Entry("town", OrElse(ts[nearestTown].name, UnnamedTown))
        ELSE NoEntry

\* a classifier without the town-at-peak rule
ClassifyNoPeakOverride(pts, idx, ps, rs, ts) ==
    LET lat == pts[idx + 1].lat
        nearestPass == Nearest(NodeLats(ps), lat)
        nearestRiver == Nearest(RiverLats(rs), lat)
        nearestTown == Nearest(NodeLats(ts), lat)
    IN  IF nearestPass # 0
        THEN Entry("pass", OrElse(ps[nearestPass].name, UnnamedPass))
        ELSE IF nearestRiver # 0
        THEN Entry("river", OrElse(rs[nearestRiver].name, UnnamedRiver))
        ELSE IF nearestTown # 0
        THEN Entry("town", OrElse(ts[nearestTown].name, UnnamedTown))
        ELSE NoEntry

Classify(pts, idx, ps, rs, ts) ==
    LET lat == pts[idx + 1].lat
        nearestPass == Nearest(NodeLats(ps), lat)
        nearestRiver == Nearest(RiverLats(rs), lat)
        nearestTown == Nearest(NodeLats(ts), lat)
    IN  IF nearestPass # 0
        THEN Entry("pass", OrElse(ps[nearestPass].name, UnnamedPass))
        ELSE IF nearestRiver # 0
        THEN Entry("river", OrElse(rs[nearestRiver].name, UnnamedRiver))
        ELSE IF nearestTown # 0 /\ isPeak(pts, idx)
        THEN Entry("pass", OrElse(ts[nearestTown].name, UnnamedTownPeak))
        ELSE IF nearestTown # 0
        THEN Entry("town", OrElse(ts[nearestTown].name, UnnamedTown))
        ELSE NoEntry

(***************************************************************************)
(* Lines 405-461: the three filter passes.  Each pass is a loop over the   *)
(* markers in order; its state is the record of filtered, blockHas, seen.  *)
(***************************************************************************)
Lookup(map, km) == IF km \in DOMAIN map THEN map[km] ELSE NoEntry

SeenKey(entry) == <<entry.type, entry.name>>

\* an acceptance that does not mark the block as claimed
AcceptNoClaim(acc, km, entry) ==
    [filtered |-> (km :> entry) @@ acc.filtered,
     blockHas |-> acc.blockHas,
     seen |-> acc.seen \cup {SeenKey(entry)}]

\* an acceptance that files the entry under the first km of its block
AcceptAtBlockStart(acc, km, entry) ==
    [filtered |-> (BlockOf(km) * BlockKm :> entry) @@ acc.filtered,
     blockHas |-> acc.blockHas \cup {BlockOf(km)},
     seen |-> acc.seen \cup {SeenKey(entry)}]

Accept(acc, km, entry) ==
    [filtered |-> (km :> entry) @@ acc.filtered,
     blockHas |-> acc.blockHas \cup {BlockOf(km)},
     seen |-> acc.seen \cup {SeenKey(entry)}]

\* pass 1 without the test of blockHas
Pass1StepNoBlockCheck(acc, km, entry) ==
    IF ~entry.has THEN acc
    ELSE IF IsUnnamed(entry.name) THEN acc
    ELSE IF entry.type = "pass" THEN Accept(acc, km, entry)
    ELSE acc

\* lines 410-421
Pass1Step(acc, km, entry) ==
    IF ~entry.has THEN acc
    ELSE IF IsUnnamed(entry.name) THEN acc
    ELSE IF BlockOf(km) \in acc.blockHas THEN acc
    ELSE IF entry.type = "pass" THEN Accept(acc, km, entry)
    ELSE acc

RECURSIVE Pass1Loop(_, _, _, _)
Pass1Loop(acc, kms, map, n) ==
    IF n = 0 THEN acc
    ELSE Pass1Step(Pass1Loop(acc, kms, map, n - 1), kms[n], Lookup(map, kms[n]))

\* pass 2 without the test of blockHas
Pass2StepNoBlockCheck(acc, km, entry) ==
    IF ~entry.has \/ entry.type # "river" THEN acc
    ELSE IF IsUnnamed(entry.name) THEN acc
    ELSE IF SeenKey(entry) \in acc.seen THEN acc
    ELSE Accept(acc, km, entry)

\* pass 2 without the test of seen
Pass2StepNoSeenCheck(acc, km, entry) ==
    IF ~entry.has \/ entry.type # "river" THEN acc
    ELSE IF IsUnnamed(entry.name) THEN acc
    ELSE IF BlockOf(km) \in acc.blockHas THEN acc
    ELSE Accept(acc, km, entry)

\* lines 425-435
Pass2Step(acc, km, entry) ==
    IF ~entry.has \/ entry.type # "river" THEN acc
    ELSE IF IsUnnamed(entry.name) THEN acc
    ELSE IF BlockOf(km) \in acc.blockHas THEN acc
    ELSE IF SeenKey(entry) \in acc.seen THEN acc
    ELSE Accept(acc, km, entry)

RECURSIVE Pass2Loop(_, _, _, _)
Pass2Loop(acc, kms, map, n) ==
    IF n = 0 THEN acc
    ELSE Pass2Step(Pass2Loop(acc, kms, map, n - 1), kms[n], Lookup(map, kms[n]))

\* line 446: towns.find(...), 0 for undefined
FindTown(ts, name) ==
    IF \E i \in 1..Len(ts) : OrElse(ts[i].name, UnnamedTown) = name
    THEN CHOOSE i \in 1..Len(ts) :
            /\ OrElse(ts[i].name, UnnamedTown) = name
            /\ \A j \in 1..(i - 1) : OrElse(ts[j].name, UnnamedTown) # name
    ELSE 0

\* line 447
PopulationOf(ts, name) ==
    LET el == FindTown(ts, name)
    IN  IF el # 0 /\ Truthy(ts[el].population)
        THEN parseInt(StripNonDigits(ts[el].population))
        ELSE 0

\* lines 440-450: blockTowns is a function block -> [km, entry, pop]
BlockTownsStep(bt, claimed, ts, km, entry) ==
    IF ~entry.has \/ entry.type # "town" THEN bt
    ELSE IF IsUnnamed(entry.name) THEN bt
    ELSE IF BlockOf(km) \in claimed THEN bt
    ELSE IF \/ BlockOf(km) \notin DOMAIN bt
            \/ NumGreater(PopulationOf(ts, entry.name), bt[BlockOf(km)].pop)
    THEN (BlockOf(km) :> [km |-> km, entry |-> entry,
                          pop |-> PopulationOf(ts, entry.name)]) @@ bt
    ELSE bt

RECURSIVE BlockTownsLoop(_, _, _, _, _)
BlockTownsLoop(claimed, ts, kms, map, n) ==
    IF n = 0 THEN <<>>
    ELSE BlockTownsStep(BlockTownsLoop(claimed, ts, kms, map, n - 1), claimed, ts,
                        kms[n], Lookup(map, kms[n]))

\* pass 3 accepting the block's candidate without the test of seen
Pass3StepNoSeenCheck(acc, cand, block) ==
    IF block \in acc.blockHas THEN acc
    ELSE [Accept(acc, cand.km, cand.entry) EXCEPT !.blockHas = acc.blockHas \cup {block}]

\* lines 453-460, for one block of blockTowns
Pass3Step(acc, cand, block) ==
    IF block \in acc.blockHas THEN acc
    ELSE IF SeenKey(cand.entry) \notin acc.seen
    THEN [Accept(acc, cand.km, cand.entry) EXCEPT !.blockHas = acc.blockHas \cup {block}]
    ELSE [acc EXCEPT !.blockHas = acc.blockHas \cup {block}]

\* the elements of a finite set of numbers in ascending order
RECURSIVE Ascending(_)
Ascending(S) ==
    IF S = {} THEN <<>>
    ELSE LET least == CHOOSE x \in S : \A y \in S : x <= y
         IN  <<least>> \o Ascending(S \ {least})

\* line 452: for-in visits the integer keys of blockTowns in ascending order
RECURSIVE Pass3Loop(_, _, _, _)
Pass3Loop(acc, bt, blocks, n) ==
    IF n = 0 THEN acc
    ELSE Pass3Step(Pass3Loop(acc, bt, blocks, n - 1), bt[blocks[n]], blocks[n])

Pass1(kms, map) ==
    Pass1Loop([filtered |-> <<>>, blockHas |-> {}, seen |-> {}], kms, map, Len(kms))

Pass2(acc, kms, map) == Pass2Loop(acc, kms, map, Len(kms))

\* pass 3 on an engine whose for-in order is not fixed: the second invocation
\* visits the blocks in descending order
Pass3OrderByRun(acc, ts, kms, map) ==
    LET bt == BlockTownsLoop(acc.blockHas, ts, kms, map, Len(kms))
        up == Ascending(DOMAIN bt)
        blocks == IF self = 1 THEN up
                  ELSE [i \in 1..Len(up) |-> up[Len(up) + 1 - i]]
    IN  Pass3Loop(acc, bt, blocks, Len(blocks))

Pass3(acc, ts, kms, map) ==
    LET bt == BlockTownsLoop(acc.blockHas, ts, kms, map, Len(kms))
        blocks == Ascending(DOMAIN bt)
    IN  Pass3Loop(acc, bt, blocks, Len(blocks))

(***************************************************************************)
(* Lines 462-472: the proximity collapse.                                  *)
(***************************************************************************)
\* the comparison with <= in place of <
TooCloseInclusive(kms, i) == kms[i + 1] - kms[i] <= MinGapKm

\* line 466, for the adjacent pair filteredKms[i], filteredKms[i + 1]
TooClose(kms, i) == kms[i + 1] - kms[i] < MinGapKm

\* the loop stopping one pair early
ToRemoveSkipsLastPair(kms) ==
    {kms[i] : i \in {j \in 1..(Len(kms) - 2) : TooClose(kms, j)}}

\* lines 464-469
ToRemove(kms) ==
    {kms[i] : i \in {j \in 1..(Len(kms) - 1) : TooClose(kms, j)}}

\* a collapse that never removes a pass
CollapseSparesPasses(map) ==
    LET toRemove == {km \in ToRemove(Ascending(DOMAIN map)) : map[km].type # "pass"}
    IN  [km \in (DOMAIN map) \ toRemove |-> map[km]]

\* lines 463-472
Collapse(map) ==
    LET toRemove == ToRemove(Ascending(DOMAIN map))
    IN  [km \in (DOMAIN map) \ toRemove |-> map[km]]

(***************************************************************************)
(* The invocation as a state machine.  The function suspends at            *)
(* `await fetch(...)` and at `await resp.json()`; what follows the second  *)
(* await runs without suspension, and is cut here into the steps between   *)
(* two callback invocations or two stages of the filter.                   *)
(***************************************************************************)
ProgressEvent(processed, total) ==
    [cb |-> "progress", processed |-> processed, total |-> total, result |-> <<>>]
DoneEvent(result) ==
    [cb |-> "done", processed |-> 0, total |-> 0, result |-> result]

\* the locals of an invocation that has not been made yet
IdleLocals ==
    [pc |-> "idle", points |-> <<>>, kmMarkers |-> <<>>, markerIndices |-> <<>>,
     hasProgressCb |-> FALSE, hasDoneCb |-> FALSE, lookups |-> 0,
     overpassResult |-> NullResult, passes |-> <<>>, rivers |-> <<>>,
     towns |-> <<>>, m |-> 0, summary |-> <<>>, filtered |-> <<>>,
     blockHas |-> {}, seen |-> {}, filteredKms |-> <<>>, events |-> <<>>]

Init ==
    /\ pc = "idle"
    /\ points = <<>>
    /\ kmMarkers = <<>>
    /\ markerIndices = <<>>
    /\ hasProgressCb = FALSE
    /\ hasDoneCb = FALSE
    /\ lookups = 0
    /\ overpassResult = NullResult
    /\ passes = <<>>
    /\ rivers = <<>>
    /\ towns = <<>>
    /\ m = 0
    /\ summary = <<>>
    /\ filtered = <<>>
    /\ blockHas = {}
    /\ seen = {}
    /\ filteredKms = <<>>
    /\ events = <<>>
    /\ peer = IdleLocals
    /\ self = 1

\* a call that issues the lookup and does not wait for it
InvokeNoAwait(trkpts, progressCallback, doneCallback) ==
    /\ pc = "idle"
    /\ points' = ParsePoints(trkpts)
    /\ kmMarkers' = SampleMarkers(points').km
    /\ markerIndices' = SampleMarkers(points').idx
    /\ hasProgressCb' = progressCallback
    /\ hasDoneCb' = doneCallback
    /\ IF Len(trkpts) = 0
       THEN pc' = "threw" /\ lookups' = lookups
       ELSE pc' = "classify" /\ lookups' = lookups + 1
    /\ UNCHANGED <<overpassResult, passes, rivers, towns, m, summary,
                   filtered, blockHas, seen, filteredKms, events, peer, self>>

\* lines 290-331: the call, up to the first await.  With no track point
\* `points[0].lat` (line 318) throws before the lookup is issued.
Invoke(trkpts, progressCallback, doneCallback) ==
    /\ pc = "idle"
    /\ points' = ParsePoints(trkpts)
    /\ kmMarkers' = SampleMarkers(points').km
    /\ markerIndices' = SampleMarkers(points').idx
    /\ hasProgressCb' = progressCallback
    /\ hasDoneCb' = doneCallback
    /\ IF Len(trkpts) = 0
       THEN pc' = "threw" /\ lookups' = lookups
       ELSE pc' = "fetch" /\ lookups' = lookups + 1
    /\ UNCHANGED <<overpassResult, passes, rivers, towns, m, summary,
                   filtered, blockHas, seen, filteredKms, events, peer, self>>

\* lines 333-351 when the try block has thrown: overpassResult stays null
LookupFailed ==
    /\ overpassResult' = NullResult
    /\ passes' = <<>>
    /\ rivers' = <<>>
    /\ towns' = <<>>
    /\ pc' = "classify"
    /\ UNCHANGED <<points, kmMarkers, markerIndices, hasProgressCb, hasDoneCb,
                   lookups, m, summary, filtered, blockHas, seen, filteredKms, events, peer, self>>

\* line 331: fetch rejects (network error)
FetchReject ==
    /\ pc = "fetch"
    /\ LookupFailed

\* line 331: fetch resolves with a response
FetchResolve ==
    /\ pc = "fetch"
    /\ pc' = "json"
    /\ UNCHANGED <<points, kmMarkers, markerIndices, hasProgressCb, hasDoneCb,
                   lookups, overpassResult, passes, rivers, towns, m, summary,
                   filtered, blockHas, seen, filteredKms, events, peer, self>>

\* line 332: resp.json() rejects (the body is not JSON)
JsonReject ==
    /\ pc = "json"
    /\ LookupFailed

\* the elements the loop of line 336 visits before it ends or throws
Visited(result) ==
    IF result.kind # "list" THEN <<>>
    ELSE IF \E i \in 1..Len(result.elements) : result.elements[i].null
    THEN SubSeq(result.elements, 1,
                (CHOOSE i \in 1..Len(result.elements) :
                    /\ result.elements[i].null
                    /\ \A j \in 1..(i - 1) : ~result.elements[j].null) - 1)
    ELSE result.elements

\* lines 332-351: resp.json() resolves with value; the tag filter runs
JsonResolve(value) ==
    /\ pc = "json"
    /\ overpassResult' = value
    /\ passes' = SelectSeq(Visited(value), IsPassElem)
    /\ rivers' = SelectSeq(Visited(value), IsRiverElem)
    /\ towns' = SelectSeq(Visited(value), IsTownElem)
    /\ pc' = IF HasElements(value) /\ TagFilterThrows(value) THEN "threw" ELSE "classify"
    /\ UNCHANGED <<points, kmMarkers, markerIndices, hasProgressCb, hasDoneCb,
                   lookups, m, summary, filtered, blockHas, seen, filteredKms, events, peer, self>>

\* a classification loop that reports progress for matched markers only
ReportProgressIfMatched(evs, given, entry, processed, total) ==
    IF given /\ entry.has THEN Append(evs, ProgressEvent(processed, total)) ELSE evs

\* lines 365, 380, 394, 399, 402: `if (progressCallback) progressCallback(m+1,
\* kmMarkers.length)`, at the end of every branch of the loop body
ReportProgress(evs, given, entry, processed, total) ==
    IF given THEN Append(evs, ProgressEvent(processed, total)) ELSE evs

\* lines 352-403: one iteration of the classification loop
ClassifyMarker ==
    /\ pc = "classify"
    /\ m < Len(kmMarkers)
    /\ LET entry == Classify(points, markerIndices[m + 1], passes, rivers, towns)
       IN  /\ summary' = IF entry.has THEN (kmMarkers[m + 1] :> entry) @@ summary
                         ELSE summary
           /\ events' = ReportProgress(events, hasProgressCb, entry, m + 1,
                                       Len(kmMarkers))
    /\ m' = m + 1
    /\ pc' = IF m + 1 < Len(kmMarkers) THEN "classify" ELSE "pass1"
    /\ UNCHANGED <<points, kmMarkers, markerIndices, hasProgressCb, hasDoneCb,
                   lookups, overpassResult, passes, rivers, towns, filtered,
                   blockHas, seen, filteredKms, peer, self>>

FilterState == [filtered |-> filtered, blockHas |-> blockHas, seen |-> seen]

SetFilterState(acc) ==
    /\ filtered' = acc.filtered
    /\ blockHas' = acc.blockHas
    /\ seen' = acc.seen
    /\ UNCHANGED <<points, kmMarkers, markerIndices, hasProgressCb, hasDoneCb,
                   lookups, overpassResult, passes, rivers, towns, m, summary,
                   events, peer, self>>

\* lines 405-422
FilterPass1 ==
    /\ pc = "pass1"
    /\ SetFilterState(Pass1(kmMarkers, summary))
    /\ UNCHANGED filteredKms
    /\ pc' = "pass2"

\* lines 423-436
FilterPass2 ==
    /\ pc = "pass2"
    /\ SetFilterState(Pass2(FilterState, kmMarkers, summary))
    /\ UNCHANGED filteredKms
    /\ pc' = "pass3"

\* lines 437-461
FilterPass3 ==
    /\ pc = "pass3"
    /\ SetFilterState(Pass3(FilterState, towns, kmMarkers, summary))
    /\ UNCHANGED filteredKms
    /\ pc' = "collapse"

\* lines 462-472
ProximityCollapse ==
    /\ pc = "collapse"
    /\ filteredKms' = Ascending(DOMAIN filtered)
    /\ SetFilterState([FilterState EXCEPT !.filtered = Collapse(filtered)])
    /\ pc' = "deliver"

\* line 473
Deliver ==
    /\ pc = "deliver"
    /\ events' = IF hasDoneCb THEN Append(events, DoneEvent(filtered)) ELSE events
    /\ pc' = "done"
    /\ UNCHANGED <<points, kmMarkers, markerIndices, hasProgressCb, hasDoneCb,
                   lookups, overpassResult, passes, rivers, towns, m, summary,
                   filtered, blockHas, seen, filteredKms, peer, self>>

\* the caller invokes the function on some track, with or without callbacks
Invocation ==
    /\ pc = "idle"
    /\ \E t \in Tracks, p \in BOOLEAN, d \in BOOLEAN : Invoke(t, p, d)

\* the body of the response is some JSON value
JsonSettle ==
    /\ pc = "json"
    /\ \E v \in JsonValues : JsonResolve(v)

Next ==
    \/ Invocation
    \/ FetchReject
    \/ FetchResolve
    \/ JsonReject
    \/ JsonSettle
    \/ ClassifyMarker
    \/ FilterPass1
    \/ FilterPass2
    \/ FilterPass3
    \/ ProximityCollapse
    \/ Deliver

Spec == Init /\ [][Next]_vars

(***************************************************************************)
(* A second family of inputs, for the filter: tracks whose points lie      *)
(* exactly on whole kilometres, so that every point is a marker, and a     *)
(* lookup result with at most one feature per marker, at the marker's own  *)
(* position.  Markers are at least 1 km apart, so each marker matches its  *)
(* own feature only, and every assignment of entries to markers arises as  *)
(* a ClassifiedMap.  The caller passes both callbacks.                     *)
(***************************************************************************)
MaxMarkers == 3
MarkerKmPool == {3, 8, 11, 22}

DenseTrack(kms, profile) ==
    LET at == Ascending({0} \cup kms)
    IN  [i \in 1..Len(at) |-> Trkpt(StartLat + Scale * at[i], profile, i)]

DenseTracks ==
    {DenseTrack(kms, p) :
        kms \in {K \in SUBSET MarkerKmPool : Cardinality(K) < MaxMarkers},
        p \in EleProfiles}

FeatureKinds == {"none", "passA", "passU", "riverB", "riverU", "riverX",
                 "townA", "townB", "townU"}

FeatureAt(kind, lat) ==
    CASE kind = "passA" -> Elem("yes", "", "", NameAa, NoText, lat, 0)
      [] kind = "passU" -> Elem("yes", "", "", NoText, NoText, lat, 0)
      [] kind = "riverB" -> Elem("", "river", "", NameBb, NoText, 0, lat)
      [] kind = "riverU" -> Elem("", "river", "", NoText, NoText, lat, 0)
      [] kind = "riverX" -> Elem("", "river", "", NameOdd, NoText, lat, 0)
      [] kind = "townA" -> Elem("", "", "town", NameAa, <<"1", ",", "2">>, lat, 0)
      [] kind = "townB" -> Elem("", "", "village", NameBb, <<"n", "a">>, lat, 0)
      [] OTHER -> Elem("", "", "city", NoText, <<"7">>, lat, 0)

RECURSIVE FeaturesOf(_, _, _)
FeaturesOf(kinds, pts, n) ==
    IF n = 0 THEN <<>>
    ELSE IF kinds[n] = "none" THEN FeaturesOf(kinds, pts, n - 1)
    ELSE Append(FeaturesOf(kinds, pts, n - 1), FeatureAt(kinds[n], pts[n].lat))

DenseJsonValues(pts) ==
    {[kind |-> "list", elements |-> FeaturesOf(kinds, pts, Len(pts))] :
        kinds \in [1..Len(pts) -> FeatureKinds]}

DenseInvocation ==
    /\ pc = "idle"
    /\ \E t \in DenseTracks : Invoke(t, TRUE, TRUE)

DenseJsonSettle ==
    /\ pc = "json"
    /\ \E v \in DenseJsonValues(points) : JsonResolve(v)

DenseNext ==
    \/ DenseInvocation
    \/ FetchReject
    \/ FetchResolve
    \/ JsonReject
    \/ DenseJsonSettle
    \/ ClassifyMarker
    \/ FilterPass1
    \/ FilterPass2
    \/ FilterPass3
    \/ ProximityCollapse
    \/ Deliver

DenseSpec == Init /\ [][DenseNext]_vars

(***************************************************************************)
(* A third family of inputs: the route of the worked example, with markers *)
(* at km 0 and at some of km 8, 9 and 22, and at most one of the example's *)
(* features at each marker.                                                *)
(***************************************************************************)
NameExamplePass == <<"E","x","a","m","p","l","e"," ","P","a","s","s">>
NameExampleRiver == <<"E","x","a","m","p","l","e"," ","R","i","v","e","r">>
NameBigtown == <<"B","i","g","t","o","w","n">>

ScenarioKmPool == {8, 9, 22}

ScenarioTracks ==
    {DenseTrack(kms, p) : kms \in SUBSET ScenarioKmPool, p \in EleProfiles}

ScenarioKinds == {"none", "examplePass", "riverU", "exampleRiver", "bigtown",
                  "bigtownSmall"}

ScenarioFeatureAt(kind, lat) ==
    CASE kind = "examplePass" -> Elem("yes", "", "", NameExamplePass, NoText, lat, 0)
      [] kind = "riverU" -> Elem("", "river", "", NoText, NoText, 0, lat)
      [] kind = "exampleRiver" -> Elem("", "river", "", NameExampleRiver, NoText, 0, lat)
      [] kind = "bigtown" ->
            Elem("", "", "town", NameBigtown, <<"1","2",",","0","0","0">>, lat, 0)
      [] OTHER -> Elem("", "", "village", NameBigtown, <<"9","0","0">>, lat, 0)

RECURSIVE ScenarioFeaturesOf(_, _, _)
ScenarioFeaturesOf(kinds, pts, n) ==
    IF n = 0 THEN <<>>
    ELSE IF kinds[n] = "none" THEN ScenarioFeaturesOf(kinds, pts, n - 1)
    ELSE Append(ScenarioFeaturesOf(kinds, pts, n - 1),
                ScenarioFeatureAt(kinds[n], pts[n].lat))

ScenarioJsonValues(pts) ==
    {[kind |-> "list", elements |-> ScenarioFeaturesOf(kinds, pts, Len(pts))] :
        kinds \in [1..Len(pts) -> ScenarioKinds]}

ScenarioInvocation ==
    /\ pc = "idle"
    /\ \E t \in ScenarioTracks : Invoke(t, TRUE, TRUE)

ScenarioJsonSettle ==
    /\ pc = "json"
    /\ \E v \in ScenarioJsonValues(points) : JsonResolve(v)

ScenarioNext ==
    \/ ScenarioInvocation
    \/ FetchResolve
    \/ ScenarioJsonSettle
    \/ ClassifyMarker
    \/ FilterPass1
    \/ FilterPass2
    \/ FilterPass3
    \/ ProximityCollapse
    \/ Deliver

ScenarioSpec == Init /\ [][ScenarioNext]_vars

(***************************************************************************)
(* A fourth family of inputs, for the peak test: tracks with one point per *)
(* kilometre and an elevation profile drawn from three levels (and the     *)
(* rising profile of five levels), and a lookup result with a town at      *)
(* every point, all named or all unnamed, and at most one pass or river at *)
(* one of the points.                                                      *)
(***************************************************************************)
MaxProfile == 5
EleLevels == {100, 150, 200}
RisingProfile == <<100, 150, 200, 250, 300>>

Profiles ==
    (SeqsUpTo(EleLevels, MaxProfile) \ {<<>>}) \cup {RisingProfile}

ProfileTrack(eles) ==
    [i \in 1..Len(eles) |->
        [lat |-> StartLat + Scale * (i - 1), hasEle |-> TRUE, ele |-> eles[i]]]

ProfileTowns(pts, name) ==
    [i \in 1..Len(pts) |-> Elem("", "", "town", name, NoText, pts[i].lat, 0)]

ProfileOverlays(pts) ==
    {<<>>}
    \cup {<<Elem("yes", "", "", NameBb, NoText, pts[k].lat, 0)>> : k \in 1..Len(pts)}
    \cup {<<Elem("", "river", "", NameBb, NoText, 0, pts[k].lat)>> : k \in 1..Len(pts)}

ProfileJsonValues(pts) ==
    {[kind |-> "list", elements |-> ProfileTowns(pts, name) \o overlay] :
        name \in {NameAa, NoText}, overlay \in ProfileOverlays(pts)}

ProfileInvocation ==
    /\ pc = "idle"
    /\ \E eles \in Profiles : Invoke(ProfileTrack(eles), TRUE, TRUE)

ProfileJsonSettle ==
    /\ pc = "json"
    /\ \E v \in ProfileJsonValues(points) : JsonResolve(v)

ProfileNext ==
    \/ ProfileInvocation
    \/ FetchResolve
    \/ ProfileJsonSettle
    \/ ClassifyMarker

ProfileSpec == Init /\ [][ProfileNext]_vars

(***************************************************************************)
(* Tracks over four blocks, one of them holding two markers, with named    *)
(* passes, rivers and towns that repeat across blocks; the elevation is    *)
(* falling, absent, or the same on every point.                            *)
(***************************************************************************)
NamesKmPool == {11, 22, 26, 33}

NamesProfiles == {"falling", "none", "flat"}

NamesTrkpt(lat, profile, i) ==
    IF profile = "flat" THEN [lat |-> lat, hasEle |-> TRUE, ele |-> 100]
    ELSE Trkpt(lat, profile, i)

NamesTrack(kms, profile) ==
    LET at == Ascending({0} \cup kms)
    IN  [i \in 1..Len(at) |-> NamesTrkpt(StartLat + Scale * at[i], profile, i)]

NamesTracks ==
    {NamesTrack(kms, p) :
        kms \in {K \in SUBSET NamesKmPool : Cardinality(K) < 4},
        p \in NamesProfiles}

NamesKinds == {"none", "passA", "riverB", "townA", "townB", "townU"}

NamesFeatureAt(kind, lat) ==
    CASE kind = "passA" -> Elem("yes", "", "", NameAa, NoText, lat, 0)
      [] kind = "riverB" -> Elem("", "river", "", NameBb, NoText, 0, lat)
      [] kind = "townA" -> Elem("", "", "town", NameAa, <<"1", ",", "2">>, lat, 0)
      [] kind = "townB" -> Elem("", "", "village", NameBb, <<"7">>, lat, 0)
      [] OTHER -> Elem("", "", "city", NoText, <<"9", "0">>, lat, 0)

RECURSIVE NamesFeaturesOf(_, _, _)
NamesFeaturesOf(kinds, pts, n) ==
    IF n = 0 THEN <<>>
    ELSE IF kinds[n] = "none" THEN NamesFeaturesOf(kinds, pts, n - 1)
    ELSE Append(NamesFeaturesOf(kinds, pts, n - 1),
                NamesFeatureAt(kinds[n], pts[n].lat))

NamesJsonValues(pts) ==
    {[kind |-> "list", elements |-> NamesFeaturesOf(kinds, pts, Len(pts))] :
        kinds \in [1..Len(pts) -> NamesKinds]}

NamesInvocation ==
    /\ pc = "idle"
    /\ \E t \in NamesTracks : Invoke(t, TRUE, TRUE)

NamesJsonSettle ==
    /\ pc = "json"
    /\ \E v \in NamesJsonValues(points) : JsonResolve(v)

NamesNext ==
    \/ NamesInvocation
    \/ FetchResolve
    \/ NamesJsonSettle
    \/ ClassifyMarker
    \/ FilterPass1
    \/ FilterPass2
    \/ FilterPass3
    \/ ProximityCollapse
    \/ Deliver

NamesSpec == Init /\ [][NamesNext]_vars

(***************************************************************************)
(* The proximity collapse as a function of the accepted keys: the state    *)
(* at line 462 for an arbitrary set of accepted keys.                      *)
(***************************************************************************)
CollapseKeyPool == {7, 12, 14, 15, 20, 24, 40}

CollapseInit ==
    /\ pc = "collapse"
    /\ points = <<>>
    /\ kmMarkers = <<>>
    /\ markerIndices = <<>>
    /\ hasProgressCb = TRUE
    /\ hasDoneCb = TRUE
    /\ lookups = 1
    /\ overpassResult = NullResult
    /\ passes = <<>>
    /\ rivers = <<>>
    /\ towns = <<>>
    /\ m = 0
    /\ summary = <<>>
    /\ \E keys \in SUBSET CollapseKeyPool :
          filtered = [km \in keys |-> Entry("pass", NameAa)]
    /\ blockHas = {}
    /\ seen = {}
    /\ filteredKms = <<>>
    /\ events = <<>>
    /\ peer = IdleLocals
    /\ self = 1

CollapseNext ==
    \/ ProximityCollapse
    \/ Deliver

CollapseSpec == CollapseInit /\ [][CollapseNext]_vars

(***************************************************************************)
(* Two invocations.  Every variable of the function is a parameter or a    *)
(* `let` binding of the call, so each call has its own copy; the event     *)
(* loop runs one call at a time and leaves it only at an await or at its   *)
(* end.  The variables above are the locals of the call that is running,   *)
(* peer holds the locals of the other call.  Switch hands the event loop   *)
(* to the other call: to let the caller make it, or to let its lookup      *)
(* settle.                                                                 *)
(***************************************************************************)
Locals ==
    [pc |-> pc, points |-> points, kmMarkers |-> kmMarkers,
     markerIndices |-> markerIndices, hasProgressCb |-> hasProgressCb,
     hasDoneCb |-> hasDoneCb, lookups |-> lookups,
     overpassResult |-> overpassResult, passes |-> passes, rivers |-> rivers,
     towns |-> towns, m |-> m, summary |-> summary, filtered |-> filtered,
     blockHas |-> blockHas, seen |-> seen, filteredKms |-> filteredKms,
     events |-> events]

\* a call that found `summary` outside the function, shared by all calls
LoadKeepingSummary(st) ==
    /\ pc' = st.pc
    /\ points' = st.points
    /\ kmMarkers' = st.kmMarkers
    /\ markerIndices' = st.markerIndices
    /\ hasProgressCb' = st.hasProgressCb
    /\ hasDoneCb' = st.hasDoneCb
    /\ lookups' = st.lookups
    /\ overpassResult' = st.overpassResult
    /\ passes' = st.passes
    /\ rivers' = st.rivers
    /\ towns' = st.towns
    /\ m' = st.m
    /\ summary' = summary
    /\ filtered' = st.filtered
    /\ blockHas' = st.blockHas
    /\ seen' = st.seen
    /\ filteredKms' = st.filteredKms
    /\ events' = st.events

Load(st) ==
    /\ pc' = st.pc
    /\ points' = st.points
    /\ kmMarkers' = st.kmMarkers
    /\ markerIndices' = st.markerIndices
    /\ hasProgressCb' = st.hasProgressCb
    /\ hasDoneCb' = st.hasDoneCb
    /\ lookups' = st.lookups
    /\ overpassResult' = st.overpassResult
    /\ passes' = st.passes
    /\ rivers' = st.rivers
    /\ towns' = st.towns
    /\ m' = st.m
    /\ summary' = st.summary
    /\ filtered' = st.filtered
    /\ blockHas' = st.blockHas
    /\ seen' = st.seen
    /\ filteredKms' = st.filteredKms
    /\ events' = st.events

\* the running call is suspended at an await or has ended, and the other
\* call is still to be made or waits for its lookup
Switch ==
    /\ pc \in {"fetch", "json", "done", "threw"}
    /\ peer.pc \in {"idle", "fetch", "json"}
    /\ Load(peer)
    /\ peer' = Locals
    /\ self' = 3 - self

PairTracks == {DenseTrack(kms, "falling") : kms \in {{3}, {3, 11}}}

PairKinds == {"none", "passA", "townA"}

PairJsonValues(pts) ==
    {[kind |-> "list", elements |-> FeaturesOf(kinds, pts, Len(pts))] :
        kinds \in [1..Len(pts) -> PairKinds]}

PairInvocation ==
    /\ pc = "idle"
    /\ \E t \in PairTracks : Invoke(t, TRUE, TRUE)

PairJsonSettle ==
    /\ pc = "json"
    /\ \E v \in PairJsonValues(points) : JsonResolve(v)

PairNext ==
    \/ PairInvocation
    \/ FetchReject
    \/ FetchResolve
    \/ PairJsonSettle
    \/ ClassifyMarker
    \/ FilterPass1
    \/ FilterPass2
    \/ FilterPass3
    \/ ProximityCollapse
    \/ Deliver
    \/ Switch

PairSpec == Init /\ [][PairNext]_vars

(***************************************************************************)
(* Properties.                                                             *)
(***************************************************************************)
IsProgress(e) == e.cb = "progress"
IsDone(e) == e.cb = "done"
ProgressLog == SelectSeq(events, IsProgress)
DoneLog == SelectSeq(events, IsDone)
AfterLoop == pc \in {"pass1", "pass2", "pass3", "collapse", "deliver", "done"}
Ended == pc \in {"done", "threw"}

\* the latitude of the point of the j-th marker
MarkerLat(j) == points[markerIndices[j] + 1].lat

\* a feature position that the nearest-search accepts for a marker at lat
Within(elLat, lat) ==
    /\ elLat # 0
    /\ elLat - lat < ProximityKm * Scale
    /\ lat - elLat < ProximityKm * Scale

RiverLatOf(el) == IF el.lat # 0 THEN el.lat ELSE el.center

PassNear(j) == \E i \in DOMAIN passes : Within(passes[i].lat, MarkerLat(j))
RiverNear(j) == \E i \in DOMAIN rivers : Within(RiverLatOf(rivers[i]), MarkerLat(j))
TownNear(j) == \E i \in DOMAIN towns : Within(towns[i].lat, MarkerLat(j))

Placeholders == {UnnamedPass, UnnamedRiver, UnnamedTown, UnnamedTownPeak}

\* the name contains "unnamed" in any mix of upper and lower case
UnnamedCases == <<{"u", "U"}, {"n", "N"}, {"n", "N"}, {"a", "A"},
                  {"m", "M"}, {"e", "E"}, {"d", "D"}>>
ContainsUnnamed(name) ==
    \E i \in 0..(Len(name) - 7) : \A j \in 1..7 : name[i + j] \in UnnamedCases[j]

\* C1: in every invocation whose lookup has resolved or failed, the
\* completion callback is invoked exactly once, as the last callback, with
\* the FilteredResult, after the progress notification of the last marker and
\* after the three passes and the collapse; it is not invoked before the
\* invocation has ended.  (Stated of the invocations given a doneCallback.)
C1_DoneExactlyOnce ==
    hasDoneCb =>
        /\ pc # "done" => Len(DoneLog) = 0
        /\ (lookups > 0 /\ Ended) =>
              /\ Len(DoneLog) = 1
              /\ events[Len(events)] = DoneEvent(filtered)
              /\ hasProgressCb => Len(ProgressLog) = Len(kmMarkers)

\* C2: with N markers, after j iterations of the classification loop the
\* progress callback has been invoked exactly j times, the k-th time with
\* (k, N); once the loop is over it has been invoked exactly N times,
\* whatever branch each marker took.
C2_ProgressOncePerMarker ==
    hasProgressCb =>
        /\ ProgressLog = [k \in 1..m |-> ProgressEvent(k, Len(kmMarkers))]
        /\ AfterLoop => m = Len(kmMarkers)

\* a finished run of three markers: one took the river branch, one the town
\* branch, one matched nothing
C2_Witness ==
    /\ pc = "done"
    /\ hasProgressCb
    /\ Len(kmMarkers) = 3
    /\ Len(ProgressLog) = 3
    /\ \E a, b, c \in 1..3 :
          /\ Lookup(summary, kmMarkers[a]).type = "river"
          /\ Lookup(summary, kmMarkers[b]).type = "town"
          /\ ~Lookup(summary, kmMarkers[c]).has

\* C3: the FilteredResult delivered to the completion callback has at most
\* one key per 10 km block.
C3_BlockUniqueness ==
    \A i \in DOMAIN events :
        IsDone(events[i]) =>
            \A k1, k2 \in DOMAIN events[i].result :
                k1 # k2 => (k1 \div 10) # (k2 \div 10)

\* a result was delivered for a ClassifiedMap with a named pass and a named
\* river in one block, and the result has a key of that block
C3_Witness ==
    /\ Len(DoneLog) = 1
    /\ \E k1, k2 \in DOMAIN summary :
          /\ k1 # k2
          /\ (k1 \div 10) = (k2 \div 10)
          /\ summary[k1].type = "pass" /\ summary[k1].name = NameAa
          /\ summary[k2].type = "river" /\ summary[k2].name = NameBb
          /\ \E k \in DOMAIN DoneLog[1].result : (k \div 10) = (k1 \div 10)

\* C4: no entry of the delivered FilteredResult has a name containing
\* "unnamed" in any letter case; a classified entry with one of the four
\* placeholder names is not in the result; and every block that was claimed
\* holds a classified entry whose name is not a placeholder.
C4_PlaceholderExclusion ==
    /\ \A i \in DOMAIN events :
          IsDone(events[i]) =>
              /\ \A km \in DOMAIN events[i].result :
                    ~ContainsUnnamed(events[i].result[km].name)
              /\ \A km \in DOMAIN summary :
                    summary[km].name \in Placeholders =>
                        km \notin DOMAIN events[i].result
    /\ \A b \in blockHas :
          \E km \in DOMAIN summary :
              (km \div 10) = b /\ ~ContainsUnnamed(summary[km].name)

\* a non-empty result was delivered for a ClassifiedMap that holds an
\* "Unnamed Pass" and a river named "X uNnAmED" whose blocks were never
\* claimed
C4_Witness ==
    /\ Len(DoneLog) = 1
    /\ DoneLog[1].result # <<>>
    /\ \E k1, k2 \in DOMAIN summary :
          /\ summary[k1].name = UnnamedPass
          /\ summary[k2].name = NameOdd
          /\ (k1 \div 10) \notin blockHas
          /\ (k2 \div 10) \notin blockHas

\* C5: in the delivered FilteredResult any two entries that are consecutive
\* in ascending km order are at least 5 km apart, whatever the set of
\* accepted keys was.
C5_MinimumSeparation ==
    \A i \in DOMAIN events :
        IsDone(events[i]) =>
            \A k1, k2 \in DOMAIN events[i].result :
                (k1 < k2 /\ ~\E k \in DOMAIN events[i].result : k1 < k /\ k < k2)
                    => k2 - k1 >= 5

\* a result of two or more entries was delivered for accepted keys that
\* held three keys pairwise closer than 5 km
C5_Witness ==
    /\ Len(DoneLog) = 1
    /\ Cardinality(DOMAIN DoneLog[1].result) >= 2
    /\ \E a, b, c \in DOMAIN filteredKms :
          /\ a < b /\ b < c
          /\ filteredKms[c] - filteredKms[a] < 5

\* C6: after the collapse an accepted key is kept iff it is the largest
\* accepted key or the next accepted key is at least 5 km later; nothing else
\* is in the result; accepted keys 12, 15, 40 give 15 and 40.
C6_CollapseKeepsLater ==
    (pc \in {"deliver", "done"}) =>
        /\ DOMAIN filtered \subseteq {filteredKms[i] : i \in DOMAIN filteredKms}
        /\ \A i \in DOMAIN filteredKms :
              (filteredKms[i] \in DOMAIN filtered) <=>
                  \/ i = Len(filteredKms)
                  \/ filteredKms[i + 1] >= filteredKms[i] + 5
        /\ filteredKms = <<12, 15, 40>> => DOMAIN filtered = {15, 40}

\* the accepted keys were 12, 15 and 40 and the collapse has run
C6_Witness ==
    /\ pc = "done"
    /\ filteredKms = <<12, 15, 40>>
    /\ DOMAIN filtered = {15, 40}

\* C7: for every classified marker: if a pass is within the threshold the
\* entry is a pass named after such a pass; else if a river is within the
\* threshold the entry is a river named after such a river; else if a town is
\* within the threshold the entry is named after such a town; else there is
\* no entry.
C7_ClassifierPrecedence ==
    \A j \in 1..m :
        LET e == Lookup(summary, kmMarkers[j])
        IN  /\ PassNear(j) =>
                  /\ e.has /\ e.type = "pass"
                  /\ \E i \in DOMAIN passes :
                        /\ Within(passes[i].lat, MarkerLat(j))
                        /\ e.name = OrElse(passes[i].name, UnnamedPass)
            /\ (~PassNear(j) /\ RiverNear(j)) =>
                  /\ e.has /\ e.type = "river"
                  /\ \E i \in DOMAIN rivers :
                        /\ Within(RiverLatOf(rivers[i]), MarkerLat(j))
                        /\ e.name = OrElse(rivers[i].name, UnnamedRiver)
            /\ (~PassNear(j) /\ ~RiverNear(j) /\ TownNear(j)) =>
                  /\ e.has /\ e.type \in {"pass", "town"}
                  /\ \E i \in DOMAIN towns :
                        /\ Within(towns[i].lat, MarkerLat(j))
                        /\ e.name = OrElse(towns[i].name,
                                           IF e.type = "pass" THEN UnnamedTownPeak
                                           ELSE UnnamedTown)
            /\ (~PassNear(j) /\ ~RiverNear(j) /\ ~TownNear(j)) => ~e.has

\* a marker with a pass 0.5 km away and a river at its own position was
\* classified as a pass
C7_Witness ==
    \E j \in 1..m :
        /\ \E i \in DOMAIN passes : passes[i].lat # 0 /\ passes[i].lat # MarkerLat(j)
                                    /\ Within(passes[i].lat, MarkerLat(j))
        /\ \A i \in DOMAIN passes : passes[i].lat # MarkerLat(j)
        /\ \E i \in DOMAIN rivers : RiverLatOf(rivers[i]) = MarkerLat(j)
        /\ Lookup(summary, kmMarkers[j]).type = "pass"

\* C8: invoked with fewer than 2 track points, the function fails before the
\* lookup is issued and before any callback is invoked.
C8_InsufficientInputFatal ==
    (pc # "idle" /\ Len(points) < 2) =>
        /\ pc = "threw"
        /\ lookups = 0
        /\ events = <<>>

\* C9: whatever the lookup does (fetch or json() rejects, the value has no
\* elements, its elements are not a list, or hold null or tag-less items),
\* the invocation does not fail: it ends with every marker reported and the
\* completion callback invoked.
C9_LookupFailureRecovered ==
    /\ lookups > 0 => pc # "threw"
    /\ (lookups > 0 /\ Ended) =>
          /\ hasProgressCb => Len(ProgressLog) = Len(kmMarkers)
          /\ hasDoneCb => Len(DoneLog) = 1

\* C10: for a track of at least 2 points the marker list starts with km 0 at
\* point 0, consecutive markers are at least 1 km apart in cumulativeKm and
\* strictly increasing in pointIndex, and every pointIndex is a point of the
\* track (so no point carries two markers).
C10_MarkersIncreasing ==
    (pc # "idle" /\ Len(points) >= 2) =>
        /\ Len(kmMarkers) = Len(markerIndices)
        /\ kmMarkers[1] = 0
        /\ markerIndices[1] = 0
        /\ \A i \in 1..(Len(kmMarkers) - 1) :
              /\ kmMarkers[i + 1] >= kmMarkers[i] + 1
              /\ markerIndices[i + 1] > markerIndices[i]
        /\ \A i \in DOMAIN markerIndices : markerIndices[i] < Len(points)

\* a track of three points, 8.5 km and 1.5 km apart: one marker for the first
\* pair, at km 9, and one for the second, at km 10
C10_Witness ==
    /\ Len(points) = 3
    /\ points[2].lat - points[1].lat = 17
    /\ kmMarkers = <<0, 9, 10>>
    /\ markerIndices = <<0, 1, 2>>

ScenarioMap(riverName) ==
    (8 :> Entry("pass", NameExamplePass))
        @@ (9 :> Entry("river", riverName))
        @@ (22 :> Entry("town", NameBigtown))

\* C12: when the classified markers are the pass "Example Pass" at km 8, a
\* river at km 9 (unnamed, or named) and the non-peak town "Bigtown" at km 22,
\* the delivered FilteredResult is exactly {8: pass "Example Pass", 22: town
\* "Bigtown"}.
C12_EndToEndScenario ==
    \A i \in DOMAIN events :
        (/\ IsDone(events[i])
         /\ summary \in {ScenarioMap(UnnamedRiver), ScenarioMap(NameExampleRiver)})
            => events[i].result =
                  (8 :> Entry("pass", NameExamplePass))
                      @@ (22 :> Entry("town", NameBigtown))

\* a result was delivered for the example: markers at km 0, 8, 9, 22, an
\* unnamed river at km 9 and Bigtown with population "12,000" at km 22
C12_Witness ==
    /\ Len(DoneLog) = 1
    /\ kmMarkers = <<0, 8, 9, 22>>
    /\ summary = ScenarioMap(UnnamedRiver)
    /\ Len(towns) = 1
    /\ towns[1].population = <<"1","2",",","0","0","0">>
    /\ DOMAIN DoneLog[1].result = {8, 22}

\* the elevations of the track points
Elevations == [i \in 1..Len(points) |-> points[i].ele]

\* the point at the 0-based index idx is a local elevation peak: no point
\* one or two positions away is strictly higher
LocalPeak(idx) ==
    \A j \in 0..(Len(points) - 1) :
        (j - idx \in {-2, -1, 1, 2}) => ~(Elevations[j + 1] > Elevations[idx + 1])

\* C13: for a marker that matched a town only, the town is reported as a pass
\* iff isPeak holds, and isPeak(i) holds iff no point one or two positions
\* from i, inside the sequence, is strictly higher than point i; in
\* [100,150,200,150,100] index 2 is a peak and in [100,150,200,250,300]
\* index 4 is a peak.
C13_PeakDetection ==
    /\ \A j \in 1..m :
          (~PassNear(j) /\ ~RiverNear(j) /\ TownNear(j)) =>
              /\ Lookup(summary, kmMarkers[j]).has
              /\ (Lookup(summary, kmMarkers[j]).type = "pass")
                    <=> LocalPeak(markerIndices[j])
    /\ \A idx \in 0..(Len(points) - 1) : isPeak(points, idx) <=> LocalPeak(idx)
    /\ (Elevations = <<100, 150, 200, 150, 100>> /\ passes = <<>> /\ rivers = <<>>
            /\ m >= 3)
          => Lookup(summary, 2).type = "pass"
    /\ (Elevations = RisingProfile /\ passes = <<>> /\ rivers = <<>> /\ m >= 5)
          => Lookup(summary, 4).type = "pass"

\* the rising profile was classified with towns only: its last point is
\* reported as a pass, the points before it as towns
C13_Witness ==
    /\ Elevations = RisingProfile
    /\ passes = <<>> /\ rivers = <<>>
    /\ m = 5
    /\ summary[4].type = "pass"
    /\ \A km \in 0..3 : summary[km].type = "town"

\* the blocks of the markers
Blocks == {kmMarkers[j] \div 10 : j \in DOMAIN kmMarkers}

\* the markers of block b classified as a town whose name is no placeholder
TownCandidates(b) ==
    {j \in DOMAIN kmMarkers :
        /\ (kmMarkers[j] \div 10) = b
        /\ Lookup(summary, kmMarkers[j]).has
        /\ Lookup(summary, kmMarkers[j]).type = "town"
        /\ ~ContainsUnnamed(Lookup(summary, kmMarkers[j]).name)}

\* block b holds an entry accepted by pass 1 or pass 2
ClaimedEarly(b) ==
    \E km \in DOMAIN filtered :
        (km \div 10) = b /\ filtered[km].type \in {"pass", "river"}

\* the population text of the town that was nearest to the j-th marker
OwnPopulationText(j) ==
    towns[Nearest(NodeLats(towns), MarkerLat(j))].population

\* the number a population text stands for: its digits, 0 when it has none
PopulationNumber(text) ==
    IF StripNonDigits(text) = <<>> THEN 0 ELSE DecimalValue(StripNonDigits(text))

\* C14: after pass 3, in every block not claimed by pass 1 or pass 2 the
\* accepted entry is at a town marker of that block whose own matched town
\* has the largest population among the block's town markers.
C14_TownByOwnPopulation ==
    pc = "collapse" =>
        \A b \in Blocks :
            ~ClaimedEarly(b) =>
                \A km \in DOMAIN filtered :
                    (km \div 10) = b =>
                        \E j \in TownCandidates(b) :
                            /\ kmMarkers[j] = km
                            /\ \A j2 \in TownCandidates(b) :
                                  PopulationNumber(OwnPopulationText(j))
                                      >= PopulationNumber(OwnPopulationText(j2))

\* C15: after pass 3, in a block not claimed by pass 1 or pass 2, a town
\* marker whose matched town has no population or a population text without
\* a digit is not the accepted one when the block has a town marker with a
\* positive population, whichever of the two comes first.
C15_PopulationDefaultsToZero ==
    pc = "collapse" =>
        \A b \in Blocks :
            ~ClaimedEarly(b) =>
                \A j0, j1 \in TownCandidates(b) :
                    (/\ StripNonDigits(OwnPopulationText(j0)) = <<>>
                     /\ PopulationNumber(OwnPopulationText(j1)) > 0)
                        => kmMarkers[j0] \notin DOMAIN filtered

\* C16: once pass 2 has run, no name is accepted both as a pass and as a
\* river: a river whose name was accepted in pass 1 is skipped in pass 2.
C16_RiverDedupAcrossTypes ==
    (pc \in {"pass3", "collapse"}) =>
        \A k1, k2 \in DOMAIN filtered :
            (filtered[k1].type = "pass" /\ filtered[k2].type = "river")
                => filtered[k1].name # filtered[k2].name

\* the markers of block b classified as a pass whose name is no placeholder
NamedPasses(b) ==
    {j \in DOMAIN kmMarkers :
        /\ (kmMarkers[j] \div 10) = b
        /\ Lookup(summary, kmMarkers[j]).has
        /\ Lookup(summary, kmMarkers[j]).type = "pass"
        /\ ~ContainsUnnamed(Lookup(summary, kmMarkers[j]).name)}

\* the keys of block b accepted by the three passes
AcceptedIn(b) == {km \in DOMAIN filtered : (km \div 10) = b}

\* the markers of block b classified as a river whose name is no placeholder
\* and is not the name of a river accepted in another block
FreshRivers(b) ==
    {j \in DOMAIN kmMarkers :
        /\ (kmMarkers[j] \div 10) = b
        /\ Lookup(summary, kmMarkers[j]).has
        /\ Lookup(summary, kmMarkers[j]).type = "river"
        /\ ~ContainsUnnamed(Lookup(summary, kmMarkers[j]).name)
        /\ \A km \in DOMAIN filtered :
              (filtered[km].type = "river"
                  /\ filtered[km].name = Lookup(summary, kmMarkers[j]).name)
                  => (km \div 10) = b}

\* C17: after the three passes and before the collapse, a block with a pass
\* marker whose name is no placeholder holds exactly one accepted entry, the
\* lowest-km such pass marker; a block without one holds no accepted pass,
\* whatever placeholder-named passes it has, and holds an accepted river when
\* it has a named river not accepted elsewhere.
C17_BlockPrecedence ==
    pc = "collapse" =>
        \A b \in Blocks :
            IF NamedPasses(b) # {}
            THEN \E j \in NamedPasses(b) :
                    /\ \A j2 \in NamedPasses(b) : kmMarkers[j] <= kmMarkers[j2]
                    /\ AcceptedIn(b) = {kmMarkers[j]}
                    /\ filtered[kmMarkers[j]] = summary[kmMarkers[j]]
            ELSE /\ \A km \in AcceptedIn(b) : filtered[km].type # "pass"
                 /\ FreshRivers(b) # {} =>
                       \E km \in AcceptedIn(b) : filtered[km].type = "river"

\* the three passes have run on a block 0 that holds an "Unnamed Pass" at
\* km 0 and two passes with different names at km 3 and km 8: the one at km 3
\* is the accepted entry
C17_Witness ==
    /\ pc = "collapse"
    /\ kmMarkers = <<0, 3, 8>>
    /\ Lookup(summary, 0) = Entry("pass", UnnamedPass)
    /\ NamedPasses(0) = {2, 3}
    /\ Lookup(summary, 3).name # Lookup(summary, 8).name
    /\ DOMAIN filtered = {3}

\* C18: a classified marker with a town but no pass and no river within the
\* threshold is a pass named after the town (or "Unnamed Town (Peak)") when
\* its point is a local peak, and a town named after it (or "Unnamed Town")
\* otherwise; a marker with a pass or a river within the threshold is named
\* after that pass or river, peak or not.
C18_PeakOverride ==
    \A j \in 1..m :
        LET e == Lookup(summary, kmMarkers[j])
        IN  /\ (~PassNear(j) /\ ~RiverNear(j) /\ TownNear(j)) =>
                  \E i \in DOMAIN towns :
                      /\ Within(towns[i].lat, MarkerLat(j))
                      /\ e = IF LocalPeak(markerIndices[j])
                             THEN Entry("pass", OrElse(towns[i].name, UnnamedTownPeak))
                             ELSE Entry("town", OrElse(towns[i].name, UnnamedTown))
            /\ (PassNear(j) /\ TownNear(j)) =>
                  \E i \in DOMAIN passes :
                      /\ Within(passes[i].lat, MarkerLat(j))
                      /\ e = Entry("pass", OrElse(passes[i].name, UnnamedPass))
            /\ (~PassNear(j) /\ RiverNear(j) /\ TownNear(j)) =>
                  \E i \in DOMAIN rivers :
                      /\ Within(RiverLatOf(rivers[i]), MarkerLat(j))
                      /\ e = Entry("river", OrElse(rivers[i].name, UnnamedRiver))

\* a track of four points with summits at the second and the fourth, unnamed
\* towns at all four and a river at the first summit: the first summit was
\* classified as the river, the second as "Unnamed Town (Peak)", the other
\* two points as "Unnamed Town"
C18_Witness ==
    /\ Elevations = <<100, 200, 150, 200>>
    /\ m = 4
    /\ Len(rivers) = 1
    /\ RiverLatOf(rivers[1]) = MarkerLat(2)
    /\ Lookup(summary, 0) = Entry("town", UnnamedTown)
    /\ Lookup(summary, 1) = Entry("river", NameBb)
    /\ Lookup(summary, 2) = Entry("town", UnnamedTown)
    /\ Lookup(summary, 3) = Entry("pass", UnnamedTownPeak)

\* the lookup has been issued and has neither resolved nor failed
LookupPending == pc \in {"fetch", "json"}

\* C19: the lookup is issued at most once, and exactly once in every
\* invocation that has a track point; while it is pending nothing has been
\* classified and no callback has been invoked, and a step that leaves it
\* pending changes neither; the classification loop is entered only by the
\* step in which the lookup resolves or fails.
C19_LookupOrdering ==
    /\ [](/\ lookups <= 1
          /\ (pc # "idle" /\ Len(points) >= 1) => lookups = 1
          /\ LookupPending => (events = <<>> /\ m = 0 /\ summary = <<>>))
    /\ [][/\ (LookupPending /\ LookupPending') =>
                (events' = events /\ m' = m /\ summary' = summary)
          /\ (pc' = "classify" /\ pc # "classify") => LookupPending
          /\ lookups' # lookups => (pc = "idle" /\ LookupPending')]_vars

\* an invocation with three markers has ended after its single lookup
\* resolved with a list: three progress notifications and the completion
\* callback were delivered
C19_Witness ==
    /\ pc = "done"
    /\ lookups = 1
    /\ overpassResult.kind = "list"
    /\ Len(kmMarkers) = 3
    /\ Len(ProgressLog) = 3
    /\ Len(DoneLog) = 1

\* what an invocation with the locals st delivers when it runs alone: the
\* ClassifiedMap of its own markers against its own features, ...
RECURSIVE AloneSummary(_, _, _)
AloneSummary(st, mk, n) ==
    IF n = 0 THEN <<>>
    ELSE LET e == Classify(st.points, mk.idx[n],
                           SelectSeq(Visited(st.overpassResult), IsPassElem),
                           SelectSeq(Visited(st.overpassResult), IsRiverElem),
                           SelectSeq(Visited(st.overpassResult), IsTownElem))
         IN  IF e.has THEN (mk.km[n] :> e) @@ AloneSummary(st, mk, n - 1)
             ELSE AloneSummary(st, mk, n - 1)

\* ... its FilteredResult, ...
AloneResult(st) ==
    LET mk == SampleMarkers(st.points)
        map == AloneSummary(st, mk, Len(mk.km))
        ts == SelectSeq(Visited(st.overpassResult), IsTownElem)
    IN  Collapse(Pass3(Pass2(Pass1(mk.km, map), mk.km, map), ts, mk.km, map).filtered)

\* ... and its callback invocations
AloneEvents(st) ==
    LET total == Len(SampleMarkers(st.points).km)
    IN  [k \in 1..total |-> ProgressEvent(k, total)] \o <<DoneEvent(AloneResult(st))>>

\* the invocation with the locals st has made, so far, the callback
\* invocations it makes alone, and all of them once it has ended
AsAlone(st) ==
    /\ st.pc = "done" => st.events = AloneEvents(st)
    /\ st.pc # "idle" =>
          /\ Len(st.events) <= Len(AloneEvents(st))
          /\ st.events = SubSeq(AloneEvents(st), 1, Len(st.events))

\* C20: of two invocations, sequential or overlapping with their lookups
\* settling in either order, each makes to its own callbacks exactly the
\* progress notifications and the completion call, with the FilteredResult,
\* that it makes when it runs alone on its track points and lookup value.
C20_InvocationIsolation ==
    /\ AsAlone(Locals)
    /\ AsAlone(peer)

\* the first invocation has ended after the second, which was made while the
\* first waited for its lookup and ended before it; the two ran on different
\* tracks and delivered different, non-empty results
C20_Witness ==
    /\ self = 1
    /\ pc = "done"
    /\ peer.pc = "done"
    /\ points # peer.points
    /\ filtered # <<>>
    /\ peer.filtered # <<>>
    /\ filtered # peer.filtered

\* the map sel holds only entries of the ClassifiedMap, under their own keys,
\* and only keys of markers
SelectedFrom(sel) ==
    \A km \in DOMAIN sel :
        /\ \E j \in DOMAIN kmMarkers : kmMarkers[j] = km
        /\ km \in DOMAIN summary
        /\ sel[km] = summary[km]

\* C21: at every stage of the filter, and in the delivered FilteredResult,
\* every key is the km of a marker and a key of the ClassifiedMap and carries
\* the ClassifiedMap's entry (same type, same name); no step of the filter,
\* the collapse included, changes the ClassifiedMap.
C21_FilterOnlySelects ==
    /\ [](/\ SelectedFrom(filtered)
          /\ \A i \in DOMAIN events :
                IsDone(events[i]) => SelectedFrom(events[i].result))
    /\ [][(pc \in {"pass1", "pass2", "pass3", "collapse", "deliver"})
              => summary' = summary]_vars

\* a result was delivered that holds a pass, and whose ClassifiedMap holds
\* more entries than the result: some were not accepted, and one accepted
\* entry was removed by the collapse
C21_Witness ==
    /\ Len(DoneLog) = 1
    /\ \E km \in DOMAIN DoneLog[1].result : DoneLog[1].result[km].type = "pass"
    /\ Cardinality(DOMAIN summary) = 3
    /\ Len(filteredKms) = 2
    /\ Cardinality(DOMAIN DoneLog[1].result) = 1

\* no two rivers of the map sel share a name, and no two towns
NameUnique(sel) ==
    \A k1, k2 \in DOMAIN sel :
        (k1 # k2 /\ sel[k1].type = sel[k2].type /\ sel[k1].type \in {"river", "town"})
            => sel[k1].name # sel[k2].name

\* the markers before km that the classifier gave the same type and name
EarlierSame(km) ==
    {j \in DOMAIN kmMarkers :
        /\ kmMarkers[j] < km
        /\ Lookup(summary, kmMarkers[j]).has
        /\ Lookup(summary, kmMarkers[j]).type = summary[km].type
        /\ Lookup(summary, kmMarkers[j]).name = summary[km].name}

\* C22: among the accepted entries, and in the delivered FilteredResult, no
\* two rivers share a name and no two towns share a name.  After the three
\* passes an accepted river is the first marker of its name whose block was
\* still free (every earlier river marker of that name lies in a block taken
\* by a pass or by an earlier river), and an accepted town is at the first
\* block that was free and had no town candidate of another name.  A pass is
\* not subject to this: the lowest named pass of every block is accepted,
\* whether or not another block's accepted pass has the same name.
C22_NameUniqueness ==
    /\ NameUnique(filtered)
    /\ \A i \in DOMAIN events : IsDone(events[i]) => NameUnique(events[i].result)
    /\ pc = "collapse" =>
          /\ \A km \in DOMAIN filtered :
                /\ filtered[km].type = "river" =>
                      \A j \in EarlierSame(km) :
                          \E k \in AcceptedIn(BlockOf(kmMarkers[j])) :
                              filtered[k].type = "pass" \/ k < kmMarkers[j]
                /\ filtered[km].type = "town" =>
                      \A j \in EarlierSame(km) :
                          \/ ClaimedEarly(BlockOf(kmMarkers[j]))
                          \/ \E j2 \in TownCandidates(BlockOf(kmMarkers[j])) :
                                summary[kmMarkers[j2]].name # summary[km].name
          /\ \A b \in Blocks : \A j \in NamedPasses(b) :
                (\A j2 \in NamedPasses(b) : kmMarkers[j] <= kmMarkers[j2])
                    => /\ kmMarkers[j] \in DOMAIN filtered
                       /\ filtered[kmMarkers[j]] = summary[kmMarkers[j]]

\* a result was delivered for markers at km 0, 11, 22 and 33 classified as
\* pass "Aa", pass "Aa", river "Bb" and river "Bb": both passes are in the
\* result, and of the rivers only the one at km 22
C22_Witness ==
    /\ Len(DoneLog) = 1
    /\ kmMarkers = <<0, 11, 22, 33>>
    /\ Lookup(summary, 0) = Entry("pass", NameAa)
    /\ Lookup(summary, 11) = Entry("pass", NameAa)
    /\ Lookup(summary, 22) = Entry("river", NameBb)
    /\ Lookup(summary, 33) = Entry("river", NameBb)
    /\ DOMAIN DoneLog[1].result = {0, 11, 22}

\* the town candidates of block b whose own town has the largest population
TopTowns(b) ==
    {j \in TownCandidates(b) :
        \A j2 \in TownCandidates(b) :
            PopulationNumber(OwnPopulationText(j))
                >= PopulationNumber(OwnPopulationText(j2))}

\* the name of the j-th marker's entry is that of a town accepted for a block
\* before the marker's own
TownAcceptedBefore(j) ==
    \E km \in DOMAIN filtered :
        /\ BlockOf(km) < BlockOf(kmMarkers[j])
        /\ filtered[km].type = "town"
        /\ filtered[km].name = summary[kmMarkers[j]].name

\* C23: after pass 3, a block that pass 1 and pass 2 left free and whose
\* highest-population town candidate carries the name of a town accepted for
\* an earlier block is marked claimed and holds no accepted entry, whatever
\* other town candidates it has; the delivered result has no key in it.
C23_NoRunnerUpTown ==
    pc \in {"collapse", "deliver", "done"} =>
        \A b \in Blocks :
            (/\ ~ClaimedEarly(b)
             /\ \E j \in TopTowns(b) : TownAcceptedBefore(j))
                => /\ b \in blockHas
                   /\ AcceptedIn(b) = {}
                   /\ \A i \in DOMAIN events : IsDone(events[i]) =>
                         \A km \in DOMAIN events[i].result : BlockOf(km) # b

\* a result was delivered for markers at km 11, 22 and 26 classified as town
\* "Aa" (population 12), town "Bb" (population 7) and town "Aa": block 1
\* gave town "Aa", and block 2 gave nothing although "Bb" was not accepted
C23_Witness ==
    /\ Len(DoneLog) = 1
    /\ kmMarkers = <<0, 11, 22, 26>>
    /\ Lookup(summary, 0) = NoEntry
    /\ Lookup(summary, 11) = Entry("town", NameAa)
    /\ Lookup(summary, 22) = Entry("town", NameBb)
    /\ Lookup(summary, 26) = Entry("town", NameAa)
    /\ TopTowns(2) = {4}
    /\ 2 \in blockHas
    /\ DoneLog[1].result = (11 :> Entry("town", NameAa))

\* the i-th accepted key is followed by one less than 5 km later
GapBelowMin(i) ==
    i < Len(filteredKms) /\ filteredKms[i + 1] - filteredKms[i] < MinGapKm

\* the accepted keys from the i-th to the j-th are a run of gaps below 5 km
\* that ends at the j-th
RunEndingAt(i, j) ==
    /\ i <= j
    /\ \A k \in i..(j - 1) : GapBelowMin(k)
    /\ ~GapBelowMin(j)

\* C24: after the collapse, an accepted key followed by another accepted key
\* less than 5 km later is gone whatever the types of the two entries and
\* whichever pass accepted them, and of a run of accepted keys with every
\* adjacent gap below 5 km exactly the last one remains, with its entry; the
\* delivered result is the map so collapsed.
C24_CollapseTypeBlind ==
    pc \in {"deliver", "done"} =>
        /\ \A i \in DOMAIN filteredKms :
              GapBelowMin(i) => filteredKms[i] \notin DOMAIN filtered
        /\ \A i, j \in DOMAIN filteredKms :
              RunEndingAt(i, j) =>
                  /\ DOMAIN filtered \cap {filteredKms[k] : k \in i..j}
                        = {filteredKms[j]}
                  /\ filtered[filteredKms[j]] = Lookup(summary, filteredKms[j])
        /\ \A i \in DOMAIN events :
              IsDone(events[i]) => events[i].result = filtered

\* a result was delivered for a pass "Aa" at km 8 and a river at km 11, both
\* accepted (the pass by pass 1, for block 0): the result holds the river
\* only, and block 0 has a named pass but no entry
C24_Witness ==
    /\ Len(DoneLog) = 1
    /\ kmMarkers = <<0, 8, 11>>
    /\ Lookup(summary, 8) = Entry("pass", NameAa)
    /\ Lookup(summary, 11).type = "river"
    /\ filteredKms = <<8, 11>>
    /\ NamedPasses(0) = {2}
    /\ DOMAIN DoneLog[1].result = {11}

\* every point of the track has the same elevation
FlatTrack == \A i, j \in DOMAIN points : points[i].ele = points[j].ele

\* the markers classified so far that have a town, but no pass and no river,
\* within the threshold
TownOnly ==
    {j \in 1..m : TownNear(j) /\ ~PassNear(j) /\ ~RiverNear(j)}

NoTownIn(sel) == \A km \in DOMAIN sel : sel[km].type # "town"

\* on a flat track every point is a peak, every marker that matched a town
\* only is a pass, and no town is in the ClassifiedMap, among the accepted
\* entries or in a delivered result
FlatClassification ==
    /\ \A idx \in 0..(Len(points) - 1) : LocalPeak(idx) /\ isPeak(points, idx)
    /\ \A j \in TownOnly :
          /\ kmMarkers[j] \in DOMAIN summary
          /\ summary[kmMarkers[j]].type = "pass"
    /\ NoTownIn(summary)
    /\ NoTownIn(filtered)
    /\ \A i \in DOMAIN events : IsDone(events[i]) => NoTownIn(events[i].result)

\* the block of the j-th marker was claimed by pass 1 for a pass, and after
\* pass 3 still holds that pass and nothing else
ClaimedForPass(j) ==
    /\ pc \in {"pass2", "pass3", "collapse"} =>
          /\ BlockOf(kmMarkers[j]) \in blockHas
          /\ \E km \in AcceptedIn(BlockOf(kmMarkers[j])) : filtered[km].type = "pass"
    /\ pc = "collapse" =>
          \A km \in AcceptedIn(BlockOf(kmMarkers[j])) : filtered[km].type = "pass"

\* C25: on a track whose points all have the same elevation every point is
\* a peak, every marker that matched a town only is a pass, no town is in
\* the ClassifiedMap or the FilteredResult, and the block of every such
\* marker whose name is no placeholder is claimed for a pass in pass 1, so
\* that no river of the block is accepted.
C25_FlatTrack ==
    FlatTrack =>
        /\ FlatClassification
        /\ \A j \in TownOnly :
              ~ContainsUnnamed(summary[kmMarkers[j]].name) => ClaimedForPass(j)

\* C25 as stated: the block of every marker that matched a town only is
\* claimed for a pass in pass 1, whatever the name
C25_FlatTrackAnyName ==
    FlatTrack =>
        /\ FlatClassification
        /\ \A j \in TownOnly : ClaimedForPass(j)

\* a result was delivered for a track without elevations with markers at
\* km 22 and km 26 of block 2, a river "Bb" at the first and a town "Aa" at
\* the second: the town is the pass "Aa" and is the block's only entry
C25_Witness ==
    /\ Len(DoneLog) = 1
    /\ kmMarkers = <<0, 22, 26>>
    /\ \A i \in DOMAIN points : points[i].ele = 0
    /\ Lookup(summary, 0) = NoEntry
    /\ Lookup(summary, 22) = Entry("river", NameBb)
    /\ 3 \in TownOnly
    /\ Lookup(summary, 26) = Entry("pass", NameAa)
    /\ DoneLog[1].result = (26 :> Entry("pass", NameAa))

====
